---- MODULE Spec2Model ----
(***************************************************************************)
(* Model of the todo priority service: ml_service/app/scoring.py (the      *)
(* scoring engine) and ml_service/app/main.py (the tag validator and the   *)
(* /score handler).                                                        *)
(*                                                                         *)
(* Representation.                                                         *)
(*  - A Python str is a sequence of one-character strings, so that         *)
(*    lower(), strip(), split() and the substring test are computed.       *)
(*  - A float score is an integer number of 1/10000 (0.35 is 3500).  The   *)
(*    bonuses are exact decimals; the IEEE error the additions of          *)
(*    priority_score accumulate (0.35 + 0.05 + 0.03 + 0.03 is              *)
(*    0.45999999999999996) is a nondeterministic error of at most FloatErr *)
(*    units on the running total, which over-approximates it.              *)
(*  - A datetime is [some, ord, sec, aware, off]: the proleptic Gregorian   *)
(*    ordinal of its date (1 is 0001-01-01), the second of its day,        *)
(*    whether it carries a zone, and the zone's UTC offset in seconds.     *)
(*    None has some = FALSE.  Microseconds are left out.                   *)
(***************************************************************************)
EXTENDS Integers, Sequences, FiniteSets, TLC

VARIABLES
    \* ---- the /score handler and priority_score ----
    clock,      \* the wall clock: seconds into the day Today, UTC
    request,    \* ScoreRequest.todos: the validated TodoPayload records
    results,    \* the handler's local list `results`
    idx,        \* position of the for loop of the handler (1-based)
    pc,         \* position inside the handler / priority_score
    features,   \* the TodoFeatures of the item being scored
    score,      \* the local `score` of priority_score
    cur,        \* history: what the running call has sampled and added
    calls,      \* history: one `cur` per finished call
    \* ---- _keyword_bonus alone ----
    title,      \* the title handed to _keyword_bonus
    kwBonus,    \* what _keyword_bonus returned for it
    prevBonus,  \* history: the bonus of the title before the last word was added
    added,      \* history: the set of keywords (indices) added to the title
    nwords,     \* history: the number of words the title was built from
    kpc,
    \* ---- _tag_bonus alone ----
    tags,       \* the tag sequence handed to _tag_bonus
    tagBonus,   \* what _tag_bonus returned for it
    tpc,
    \* ---- TodoPayload.normalize_tags alone ----
    value,      \* the raw `tags` value handed to the validator
    normalized, \* what the validator returned
    npc

svcVars == <<clock, request, results, idx, pc, features, score, cur, calls>>
kwVars == <<title, kwBonus, prevBonus, added, nwords, kpc>>
tagVars == <<tags, tagBonus, tpc>>
normVars == <<value, normalized, npc>>
vars == <<svcVars, kwVars, tagVars, normVars>>

----------------------------------------------------------------------------
(* Bounds of the model *)

MaxTicks == 2      \* how far the wall clock advances while a request is served
MaxBatch == 2      \* longest batch of the batch specification
MaxAdded == 2      \* words appended to a title
MaxTags == 3       \* longest free tag sequence
MaxRepeat == 9     \* longest run of one repeated tag
MaxItems == 3      \* longest raw tag list handed to the validator
FloatErr == 1      \* bound of the float error of the running total, 1/10000
Today == 739921    \* the date the clock starts on, as an ordinal (2026-11-01)

----------------------------------------------------------------------------
(* Python str *)

Whitespace == {" ", "\t", "\n"}

UpperCase ==
    [A |-> "a", B |-> "b", C |-> "c", D |-> "d", E |-> "e", F |-> "f",
     G |-> "g", H |-> "h", I |-> "i", J |-> "j", K |-> "k", L |-> "l",
     M |-> "m", N |-> "n", O |-> "o", P |-> "p", Q |-> "q", R |-> "r",
     S |-> "s", T |-> "t", U |-> "u", V |-> "v", W |-> "w", X |-> "x",
     Y |-> "y", Z |-> "z"]

\* str.lower()
lower(s) ==
    [i \in 1..Len(s) |-> IF s[i] \in DOMAIN UpperCase THEN UpperCase[s[i]] ELSE s[i]]

RECURSIVE lstrip(_)
lstrip(s) ==
    IF s # <<>> /\ Head(s) \in Whitespace THEN lstrip(Tail(s)) ELSE s

RECURSIVE rstrip(_)
rstrip(s) ==
    IF s # <<>> /\ s[Len(s)] \in Whitespace
    THEN rstrip(SubSeq(s, 1, Len(s) - 1))
    ELSE s

\* str.strip()
strip(s) == rstrip(lstrip(s))

\* str.split(): the maximal runs of non-whitespace characters, in order
RECURSIVE splitFrom(_, _, _)
splitFrom(s, word, acc) ==
    IF s = <<>>
    THEN IF word = <<>> THEN acc ELSE Append(acc, word)
    ELSE IF Head(s) \in Whitespace
         THEN splitFrom(Tail(s), <<>>, IF word = <<>> THEN acc ELSE Append(acc, word))
         ELSE splitFrom(Tail(s), Append(word, Head(s)), acc)

split(s) == splitFrom(s, <<>>, <<>>)

\* `sub in s`
contains(sub, s) ==
    \E i \in 1..(Len(s) - Len(sub) + 1) : SubSeq(s, i, i + Len(sub) - 1) = sub

Min(a, b) == IF a <= b THEN a ELSE b
Max(a, b) == IF a >= b THEN a ELSE b

----------------------------------------------------------------------------
(* scoring.py: the weight tables *)

KEYWORD_WEIGHTS ==
    << [keyword |-> <<"u","r","g","e","n","t">>,             weight |-> 3500],
       [keyword |-> <<"a","s","a","p">>,                     weight |-> 3000],
       [keyword |-> <<"i","m","p","o","r","t","a","n","t">>, weight |-> 2500],
       [keyword |-> <<"t","o","d","a","y">>,                 weight |-> 2000],
       [keyword |-> <<"t","o","m","o","r","r","o","w">>,     weight |-> 1500],
       [keyword |-> <<"e","m","a","i","l">>,                 weight |-> 500],
       [keyword |-> <<"c","a","l","l">>,                     weight |-> 500] >>

TAG_WEIGHTS ==
    << [tag |-> <<"w","o","r","k">>,             weight |-> 1000],
       [tag |-> <<"h","o","m","e">>,             weight |-> 500],
       [tag |-> <<"b","u","g">>,                 weight |-> 2000],
       [tag |-> <<"f","e","a","t","u","r","e">>, weight |-> 1500] >>

\* TAG_WEIGHTS.get(tag, default)
TagWeightsGet(tag, default) ==
    IF \E k \in 1..Len(TAG_WEIGHTS) : TAG_WEIGHTS[k].tag = tag
    THEN (CHOOSE e \in {TAG_WEIGHTS[k] : k \in 1..Len(TAG_WEIGHTS)} : e.tag = tag).weight
    ELSE default

----------------------------------------------------------------------------
(* scoring.py: _keyword_bonus *)

KeywordCap == 4500
LongTitleWords == 8
LongTitleBonus == 500

\* the for loop of lines 51-53, over the first k entries of the table
RECURSIVE keywordLoop(_, _)
keywordLoop(title_lc, k) ==
    IF k = 0 THEN 0
    ELSE keywordLoop(title_lc, k - 1)
         + (IF contains(KEYWORD_WEIGHTS[k].keyword, title_lc)
            THEN KEYWORD_WEIGHTS[k].weight ELSE 0)

keyword_bonus_uncapped(t) ==
    LET title_lc == lower(t)
        bonus == keywordLoop(title_lc, Len(KEYWORD_WEIGHTS))
    IN  IF Len(split(title_lc)) >= LongTitleWords THEN bonus + LongTitleBonus ELSE bonus

keyword_bonus(t) ==
    LET title_lc == lower(t)
        bonus == keywordLoop(title_lc, Len(KEYWORD_WEIGHTS))
    IN  Min(IF Len(split(title_lc)) >= LongTitleWords THEN bonus + LongTitleBonus ELSE bonus,
            KeywordCap)

----------------------------------------------------------------------------
(* Inputs of the keyword specification: titles built word by word.  Every  *)
(* base title is free of keywords; every word records which keywords it    *)
(* contains, so that the set of keywords of a built title is known by      *)
(* construction.                                                           *)

BaseTitles ==
    { [text |-> <<>>, words |-> 0],
      \* "just a note"
      [text |-> <<"j","u","s","t"," ","a"," ","n","o","t","e">>, words |-> 3],
      \* "Plan   the\ttrip to  the lake "
      [text |-> <<"P","l","a","n"," "," "," ","t","h","e","\t","t","r","i","p"," ",
                  "t","o"," "," ","t","h","e"," ","l","a","k","e"," ">>, words |-> 6],
      \* "pick up the dry cleaning after lunch"
      [text |-> <<"p","i","c","k"," ","u","p"," ","t","h","e"," ","d","r","y"," ",
                  "c","l","e","a","n","i","n","g"," ","a","f","t","e","r"," ",
                  "l","u","n","c","h">>, words |-> 7] }

TitleWords ==
    { [text |-> <<"U","R","G","E","N","T",":">>,             has |-> {"urgent"}],
      [text |-> <<"a","s","a","p">>,                         has |-> {"asap"}],
      [text |-> <<"U","n","i","m","p","o","r","t","a","n","t">>, has |-> {"important"}],
      [text |-> <<"t","o","d","a","y">>,                     has |-> {"today"}],
      [text |-> <<"T","o","m","o","r","r","o","w","!">>,     has |-> {"tomorrow"}],
      [text |-> <<"e","m","a","i","l","s">>,                 has |-> {"email"}],
      [text |-> <<"r","e","c","a","l","l">>,                 has |-> {"call"}],
      [text |-> <<"e","-","m","a","i","l">>,                 has |-> {}],
      [text |-> <<"c","l","i","e","n","t">>,                 has |-> {}] }

----------------------------------------------------------------------------
(* The keyword specification: _keyword_bonus applied to built titles *)

KwIdle ==
    /\ title = <<>> /\ kwBonus = 0 /\ prevBonus = 0 /\ added = <<>>
    /\ nwords = 0 /\ kpc = "off"

TagIdle == tags = <<>> /\ tagBonus = 0 /\ tpc = "off"

NormIdle == value = [kind |-> "none", text |-> <<>>, n |-> 0] /\ normalized = <<>> /\ npc = "off"

SvcIdle ==
    /\ clock = 0 /\ request = <<>> /\ results = <<>> /\ idx = 0 /\ pc = "off"
    /\ features = <<>> /\ score = 0 /\ cur = <<>> /\ calls = <<>>

\* the caller picks a title
InitKeyword ==
    /\ \E b \in BaseTitles : title = b.text /\ nwords = b.words
    /\ kwBonus = 0 /\ prevBonus = 0 /\ added = <<>> /\ kpc = "input"
    /\ SvcIdle /\ TagIdle /\ NormIdle

\* a call of _keyword_bonus(title)
ScoreTitle ==
    /\ kpc = "input"
    /\ kwBonus' = keyword_bonus(title)
    /\ kpc' = "scored"
    /\ UNCHANGED <<title, prevBonus, added, nwords>>
    /\ UNCHANGED <<svcVars, tagVars, normVars>>

\* the caller appends one more word to the title and asks again
AddWord ==
    /\ kpc = "scored"
    /\ Len(added) < MaxAdded
    /\ \E w \in TitleWords :
          /\ title' = title \o <<" ">> \o w.text
          /\ added' = Append(added, w.has)
    /\ nwords' = nwords + 1
    /\ prevBonus' = kwBonus
    /\ kpc' = "input"
    /\ UNCHANGED kwBonus
    /\ UNCHANGED <<svcVars, tagVars, normVars>>

NextKeyword == ScoreTitle \/ AddWord

----------------------------------------------------------------------------
(* scoring.py: _tag_bonus *)

TagDefault == 300
TagCap == 2500

\* the for loop of lines 63-65
RECURSIVE tagLoop(_)
tagLoop(ts) ==
    IF ts = <<>> THEN 0
    ELSE TagWeightsGet(strip(lower(Head(ts))), TagDefault) + tagLoop(Tail(ts))

\* as tag_bonus, with an exact-match lookup of the raw tag
RECURSIVE tagLoopRaw(_)
tagLoopRaw(ts) ==
    IF ts = <<>> THEN 0
    ELSE TagWeightsGet(Head(ts), TagDefault) + tagLoopRaw(Tail(ts))

tag_bonus_raw_lookup(ts) ==
    IF ts = <<>> THEN 0 ELSE Min(tagLoopRaw(ts), TagCap)

tag_bonus(ts) ==
    IF ts = <<>> THEN 0 ELSE Min(tagLoop(ts), TagCap)

----------------------------------------------------------------------------
(* Inputs of the tag specification *)

T_work    == <<"w","o","r","k">>
T_Work_   == <<" ","W","o","r","k"," ">>
T_BUG     == <<"B","U","G">>
T_home    == <<"h","o","m","e">>
T_Feature == <<"F","e","a","t","u","r","e","\t">>
T_x       == <<"x">>
T_works   == <<"w","o","r","k","s">>
T_empty   == <<>>

TagTexts == {T_work, T_Work_, T_BUG, T_home, T_Feature, T_x, T_works, T_empty}

SeqsUpTo(S, n) == UNION {[1..k -> S] : k \in 0..n}

TagInputs ==
    SeqsUpTo(TagTexts, MaxTags)
    \cup {[i \in 1..k |-> t] : k \in 0..MaxRepeat, t \in {T_x, T_works, T_home}}

----------------------------------------------------------------------------
(* The tag specification: _tag_bonus applied to tag sequences *)

InitTag ==
    /\ tags \in TagInputs /\ tagBonus = 0 /\ tpc = "input"
    /\ SvcIdle /\ KwIdle /\ NormIdle

\* a call of _tag_bonus(tags)
ScoreTags ==
    /\ tpc = "input"
    /\ tagBonus' = tag_bonus(tags)
    /\ tpc' = "scored"
    /\ UNCHANGED tags
    /\ UNCHANGED <<svcVars, kwVars, normVars>>

NextTag == ScoreTags

----------------------------------------------------------------------------
(* main.py: TodoPayload.normalize_tags.  A raw value is None, a str or a   *)
(* list; a list item is None, a str or an int.                             *)

PyNone     == [kind |-> "none", text |-> <<>>, n |-> 0]
PyStr(t)   == [kind |-> "str",  text |-> t,    n |-> 0]
PyInt(k)   == [kind |-> "int",  text |-> <<>>, n |-> k]
PyList(xs) == [kind |-> "list", items |-> xs]

Digits == <<"0","1","2","3","4","5","6","7","8","9">>

\* str(item) of a non-negative int
RECURSIVE str_int(_)
str_int(k) ==
    IF k < 10 THEN <<Digits[k + 1]>>
    ELSE Append(str_int(k \div 10), Digits[(k % 10) + 1])

\* str(item)
str_of(item) == IF item.kind = "int" THEN str_int(item.n) ELSE item.text

\* `not item`: None, "" and 0 are falsy
falsy(item) ==
    \/ item.kind = "none"
    \/ item.kind = "str" /\ item.text = <<>>
    \/ item.kind = "int" /\ item.n = 0

\* the for loop of lines 33-36
RECURSIVE normalizeLoop(_)
normalizeLoop(items) ==
    IF items = <<>> THEN <<>>
    ELSE IF falsy(Head(items))
         THEN normalizeLoop(Tail(items))
         ELSE <<strip(str_of(Head(items)))>> \o normalizeLoop(Tail(items))

normalize_tags(v) ==
    IF v.kind = "none" THEN <<>>
    ELSE IF v.kind = "str" THEN <<v.text>>
    ELSE normalizeLoop(v.items)

----------------------------------------------------------------------------
(* Inputs of the validator specification *)

RawItems ==
    { PyNone, PyStr(<<>>), PyStr(<<" ">>), PyStr(<<"a">>),
      PyStr(<<" ","B","u","g"," ">>), PyInt(0), PyInt(17) }

RawValues ==
    {PyNone, PyStr(<<>>), PyStr(<<" ","a"," ">>), PyStr(T_work)}
    \cup {PyList(xs) : xs \in SeqsUpTo(RawItems, MaxItems)}

----------------------------------------------------------------------------
(* The validator specification: normalize_tags applied to raw values *)

InitNorm ==
    /\ value \in RawValues /\ normalized = <<>> /\ npc = "input"
    /\ SvcIdle /\ KwIdle /\ TagIdle

\* a call of TodoPayload.normalize_tags(value)
NormalizeTags ==
    /\ npc = "input"
    /\ normalized' = normalize_tags(value)
    /\ npc' = "done"
    /\ UNCHANGED value
    /\ UNCHANGED <<svcVars, kwVars, tagVars>>

NextNorm == NormalizeTags

----------------------------------------------------------------------------
(* datetime *)

SecondsPerHour == 3600
SecondsPerDay == 86400
MinOrdinal == 1            \* datetime.min is 0001-01-01T00:00:00
MaxOrdinal == 3652059      \* datetime.max is 9999-12-31T23:59:59.999999

None == [some |-> FALSE, ord |-> 1, sec |-> 0, aware |-> FALSE, off |-> 0]
Naive(o, s) == [some |-> TRUE, ord |-> o, sec |-> s, aware |-> FALSE, off |-> 0]
Aware(o, s, z) == [some |-> TRUE, ord |-> o, sec |-> s, aware |-> TRUE, off |-> z]

\* date o, second s of the day, moved by delta seconds
shift(o, s, delta) ==
    [ord |-> o + ((s + delta) \div SecondsPerDay),
     sec |-> (s + delta) % SecondsPerDay]

\* a - b of two aware datetimes: a timedelta, 0 <= seconds < 86400
timedelta(a, b) ==
    LET p == shift(a.ord - b.ord, 0, (a.sec - a.off) - (b.sec - b.off))
    IN  [days |-> p.ord, seconds |-> p.sec]

\* datetime.now(timezone.utc) when the wall clock reads c
now_utc(c) == Aware(Today, c, 0)

\* what a call gives: a value, or OverflowError
Returns(v) == [raised |-> FALSE, value |-> v]
OverflowError == [raised |-> TRUE, value |-> None]

\* value.astimezone(timezone.utc): the date value is out of range when the
\* UTC wall clock falls before datetime.min or after datetime.max
astimezone_utc(v) ==
    LET p == shift(v.ord, v.sec, 0 - v.off)
    IN  IF p.ord < MinOrdinal \/ p.ord > MaxOrdinal
        THEN OverflowError
        ELSE Returns(Aware(p.ord, p.sec, 0))

\* scoring.py: _normalize_dt
normalize_dt(v) ==
    IF ~v.some THEN Returns(None)
    ELSE IF ~v.aware THEN Returns(Aware(v.ord, v.sec, 0))
    ELSE astimezone_utc(v)

----------------------------------------------------------------------------
(* scoring.py: _age_bonus and _due_date_bonus.  `now` is the value the     *)
(* call of datetime.now(timezone.utc) inside the function returned.        *)

\* delta.total_seconds() / 3600 <= h, decided on the days and seconds
hours_le(delta, h) ==
    LET lim == shift(0, 0, h * SecondsPerHour)
    IN  \/ delta.days < lim.ord
        \/ delta.days = lim.ord /\ delta.seconds <= lim.sec

\* delta.total_seconds() / 3600 < h
hours_lt(delta, h) ==
    LET lim == shift(0, 0, h * SecondsPerHour)
    IN  \/ delta.days < lim.ord
        \/ delta.days = lim.ord /\ delta.seconds < lim.sec

\* as age_bonus, with exclusive boundaries
age_bonus_exclusive(created_at, now) ==
    IF ~created_at.some THEN 0
    ELSE LET age == timedelta(now, created_at)
         IN  IF hours_lt(age, 24) THEN 500
             ELSE IF hours_lt(age, 24 * 3) THEN 1000
             ELSE IF hours_lt(age, 24 * 7) THEN 1500
             ELSE 2000

age_bonus(created_at, now) ==
    IF ~created_at.some THEN 0
    ELSE LET age == timedelta(now, created_at)
         IN  IF hours_le(age, 24) THEN 500
             ELSE IF hours_le(age, 24 * 3) THEN 1000
             ELSE IF hours_le(age, 24 * 7) THEN 1500
             ELSE 2000

due_date_bonus(due_date, now) ==
    IF ~due_date.some THEN 0
    ELSE LET delta == timedelta(due_date, now)
         IN  IF hours_le(delta, 0) THEN 3000
             ELSE IF hours_le(delta, 24) THEN 2500
             ELSE IF hours_le(delta, 24 * 3) THEN 2000
             ELSE IF hours_le(delta, 24 * 7) THEN 1000
             ELSE 500

----------------------------------------------------------------------------
(* scoring.py: priority_score *)

BaseScore == 3500
CompletedPenalty == 6000
One == 10000

\* round(x, 3): to the nearest multiple of 0.001, ties to even
round3(x) ==
    LET q == x \div 10
        r == x % 10
    IN  IF r < 5 THEN 10 * q
        ELSE IF r > 5 THEN 10 * (q + 1)
        ELSE IF q % 2 = 0 THEN 10 * q ELSE 10 * (q + 1)

\* as penalty, with a penalty of 0.2
penalty_weak(completed) == IF completed THEN 2000 ELSE 0

\* lines 42-43
penalty(completed) == IF completed THEN CompletedPenalty ELSE 0

\* line 45: max(0.0, min(1.0, round(score, 3)))
finish(total) == Max(0, Min(One, round3(total)))

\* as complete, with the penalty taken off the clamped score
complete_penalty_last(total, completed, err) ==
    Max(0, finish(total + err) - penalty(completed))

\* lines 42-45 on the running total of lines 36-40; err is the float error
\* the total carries
complete(total, completed, err) ==
    finish(total - penalty(completed) + err)

\* the outcome of a call that raised
Raised == 0 - 1

\* priority_score(f) when the two calls of datetime.now return nowAge and
\* nowDue and the float error of the total is err: the score, or Raised
priority_score_at(f, nowAge, nowDue, err) ==
    LET ca == normalize_dt(f.created_at)
        dd == normalize_dt(f.due_date)
    IN  IF ca.raised \/ dd.raised THEN Raised
        ELSE complete(BaseScore
                        + keyword_bonus(f.title)
                        + tag_bonus(f.tags)
                        + age_bonus(ca.value, now_utc(nowAge))
                        + due_date_bonus(dd.value, now_utc(nowDue)),
                      f.completed, err)

----------------------------------------------------------------------------
(* main.py: the models *)

AsPyList(ts) == PyList([i \in 1..Len(ts) |-> PyStr(ts[i])])

\* TodoPayload(...): the "before" validator of `tags` runs on construction
TodoPayload(t, completed, created_at, due_date, rawTags) ==
    [title |-> t, completed |-> completed, created_at |-> created_at,
     due_date |-> due_date, tags |-> normalize_tags(rawTags)]

\* scoring.py: TodoFeatures(...), a plain frozen dataclass
TodoFeatures(t, completed, created_at, due_date, ts) ==
    [title |-> t, completed |-> completed, created_at |-> created_at,
     due_date |-> due_date, tags |-> ts]

\* ScoreResult(...): a subclass of TodoPayload, so the same validator runs
\* on the `tags` it is given
ScoreResult(t, completed, created_at, due_date, ts, priority) ==
    [title |-> t, completed |-> completed, created_at |-> created_at,
     due_date |-> due_date, tags |-> normalize_tags(AsPyList(ts)),
     priority_score |-> priority]

----------------------------------------------------------------------------
(* main.py: the /score handler, with priority_score run step by step: the  *)
(* wall clock may advance between any two steps.  The test of lines 59-60  *)
(* never succeeds: ScoreRequest admits no empty list (min_length=1).  An   *)
(* exception of priority_score leaves the handler: pc becomes "raised" and *)
(* no response is built.                                                   *)

NoCall == [t0 |-> 0, nowAge |-> 0, nowDue |-> 0, kw |-> 0, tag |-> 0,
           age |-> 0, due |-> 0]

\* time passes
Tick ==
    /\ pc \in {"loop", "age", "due"}
    /\ clock < MaxTicks
    /\ clock' = clock + 1
    /\ UNCHANGED <<request, results, idx, pc, features, score, cur, calls>>
    /\ UNCHANGED <<kwVars, tagVars, normVars>>

\* main.py 63-70 and scoring.py 36-38: the next todo, its features, the
\* base score and the two bonuses that do not read the clock
BeginItem ==
    /\ pc = "loop"
    /\ idx <= Len(request)
    /\ LET todo == request[idx]
           f == TodoFeatures(todo.title, todo.completed, todo.created_at,
                             todo.due_date, todo.tags)
           kw == keyword_bonus(f.title)
           tg == tag_bonus(f.tags)
       IN  /\ features' = f
           /\ score' = BaseScore + kw + tg
           /\ cur' = [NoCall EXCEPT !.t0 = clock, !.kw = kw, !.tag = tg]
    /\ pc' = "age"
    /\ UNCHANGED <<clock, request, results, idx, calls>>
    /\ UNCHANGED <<kwVars, tagVars, normVars>>

\* scoring.py 39: _normalize_dt, then _age_bonus reads the clock
AgeStep ==
    /\ pc = "age"
    /\ LET ca == normalize_dt(features.created_at)
       IN  IF ca.raised
           THEN /\ pc' = "raised"
                /\ UNCHANGED <<score, cur>>
           ELSE LET b == age_bonus(ca.value, now_utc(clock))
                IN  /\ score' = score + b
                    /\ cur' = [cur EXCEPT !.nowAge = clock, !.age = b]
                    /\ pc' = "due"
    /\ UNCHANGED <<clock, request, results, idx, features, calls>>
    /\ UNCHANGED <<kwVars, tagVars, normVars>>

\* scoring.py 40-45 and main.py 71-80: _normalize_dt, then _due_date_bonus
\* reads the clock; the penalty, the rounding and the clamp; the result is
\* appended
DueStep ==
    /\ pc = "due"
    /\ LET dd == normalize_dt(features.due_date)
       IN  IF dd.raised
           THEN /\ pc' = "raised"
                /\ UNCHANGED <<score, cur, calls, results, idx>>
           ELSE \E err \in -FloatErr..FloatErr :
                  LET b == due_date_bonus(dd.value, now_utc(clock))
                      todo == request[idx]
                  IN  /\ score' = score + b - penalty(features.completed)
                      /\ cur' = [cur EXCEPT !.nowDue = clock, !.due = b]
                      /\ calls' = Append(calls, cur')
                      /\ results' = Append(results,
                             ScoreResult(todo.title, todo.completed,
                                         todo.created_at, todo.due_date, todo.tags,
                                         complete(score + b, features.completed, err)))
                      /\ idx' = idx + 1
                      /\ pc' = "loop"
    /\ UNCHANGED <<clock, request, features>>
    /\ UNCHANGED <<kwVars, tagVars, normVars>>

\* main.py 81
Return ==
    /\ pc = "loop"
    /\ idx > Len(request)
    /\ pc' = "done"
    /\ UNCHANGED <<clock, request, results, idx, features, score, cur, calls>>
    /\ UNCHANGED <<kwVars, tagVars, normVars>>

Next == Tick \/ BeginItem \/ AgeStep \/ DueStep \/ Return

----------------------------------------------------------------------------
(* Inputs of the service specifications.  The clock starts at 00:00:00 of  *)
(* Today; the timestamps sit one second before a boundary of the step      *)
(* tables at that moment, so that the ticks of the clock carry them onto   *)
(* it and past it.                                                         *)

East == 2 * SecondsPerHour                \* UTC+02:00
West == 0 - (5 * SecondsPerHour + 1800)   \* UTC-05:30

\* the instant `days` days and `secs` seconds after the start of the clock,
\* written in the zone of offset z, and written without zone
at(days, secs, z) ==
    LET p == shift(Today + days, 0, secs + z) IN Aware(p.ord, p.sec, z)

naive_at(days, secs) ==
    LET p == shift(Today + days, 0, secs) IN Naive(p.ord, p.sec)

\* "just a note"
Title_note == <<"j","u","s","t"," ","a"," ","n","o","t","e">>
\* "URGENT: call client today"
Title_urgent == <<"U","R","G","E","N","T",":"," ","c","a","l","l"," ",
                  "c","l","i","e","n","t"," ","t","o","d","a","y">>
\* "plan trip"
Title_trip == <<"p","l","a","n"," ","t","r","i","p">>

Titles == {Title_note, Title_urgent, Title_trip}

RawTagLists ==
    { PyList(<<>>),
      PyList(<<PyStr(T_BUG)>>),
      PyList(<<PyStr(T_BUG), PyStr(T_Work_)>>),
      PyList(<<PyStr(<<" ">>)>>) }

CreatedAts ==
    { None,
      naive_at(0 - 1, 1),
      at(0 - 1, 1, East),
      at(0 - 3, 1, 0),
      at(0 - 7, 1, West),
      at(0, SecondsPerHour, East),
      Naive(MinOrdinal, 0),
      Aware(MinOrdinal, 0, East) }

DueDates ==
    { None,
      at(0, 1, 0),
      at(1, 1, East),
      naive_at(3, 1),
      at(7, 1, West),
      at(0, 0 - SecondsPerHour, 0),
      Naive(MaxOrdinal, SecondsPerDay - 1),
      Aware(MaxOrdinal, SecondsPerDay - 1, West) }

Payloads ==
    { TodoPayload(t, c, ca, dd, rt) :
        t \in Titles, c \in BOOLEAN, ca \in CreatedAts, dd \in DueDates,
        rt \in RawTagLists }

\* the few payloads batches are made of
BatchPayloads ==
    { TodoPayload(Title_note, FALSE, None, None, PyList(<<>>)),
      TodoPayload(Title_urgent, FALSE, None, at(0, 1, 0), PyList(<<PyStr(T_BUG)>>)),
      TodoPayload(Title_urgent, TRUE, None, at(0, 1, 0), PyList(<<PyStr(T_BUG)>>)),
      TodoPayload(Title_trip, FALSE, naive_at(0 - 1, 1), None, PyList(<<PyStr(<<" ">>)>>)),
      TodoPayload(Title_trip, FALSE, naive_at(0 - 1, 1), None, PyStr(T_Work_)),
      TodoPayload(Title_note, FALSE, Aware(MinOrdinal, 0, East), None, PyList(<<>>)) }

ServiceStart ==
    /\ clock = 0 /\ results = <<>> /\ idx = 1 /\ pc = "loop"
    /\ features = <<>> /\ score = 0 /\ cur = NoCall /\ calls = <<>>
    /\ KwIdle /\ TagIdle /\ NormIdle

\* one request of one todo
Init == request \in {<<p>> : p \in Payloads} /\ ServiceStart

\* one request of 1..MaxBatch todos
InitBatch ==
    /\ request \in UNION {[1..n -> BatchPayloads] : n \in 1..MaxBatch}
    /\ ServiceStart

----------------------------------------------------------------------------
(* The specifications *)

Spec == Init /\ [][Next]_vars

SpecBatch == InitBatch /\ [][Next]_vars

SpecKeyword == InitKeyword /\ [][NextKeyword]_vars

SpecTag == InitTag /\ [][NextTag]_vars

SpecNorm == InitNorm /\ [][NextNorm]_vars

----------------------------------------------------------------------------
(* Properties *)

FeaturesOf(r) == TodoFeatures(r.title, r.completed, r.created_at, r.due_date, r.tags)
Scored == 1..Len(results)

\* the instant a timestamp of a request denotes, as a date and a second of
\* the day on the UTC scale: a timestamp without zone reads as UTC
InstantOf(d) ==
    LET s == d.sec - (IF d.aware THEN d.off ELSE 0)
    IN  [ord |-> d.ord + (s \div 86400), sec |-> s % 86400]

\* the instant the clock shows when it reads c
ReadingAt(c) == [ord |-> Today, sec |-> c]

\* the seconds from instant a to instant b, cut off at ten days either way
SecondsFromTo(a, b) ==
    IF b.ord - a.ord > 9 THEN 864000
    ELSE IF b.ord - a.ord < 0 - 9 THEN 0 - 864000
    ELSE (b.ord - a.ord) * 86400 + (b.sec - a.sec)

\* the same instant written in the zone of offset z, and whether its wall
\* clock is a datetime at all
InZone(d, z) ==
    LET s == InstantOf(d).sec + z
    IN  Aware(InstantOf(d).ord + (s \div 86400), s % 86400, z)

Writable(d, z) == InZone(d, z).ord >= 1 /\ InZone(d, z).ord <= 3652059

\* C1: for every TodoFeatures, with timestamps absent or arbitrarily far in
\* the past or the future, priority_score returns a score in [0.0, 1.0]
\* that is a multiple of 0.001.
C1_ScoreInUnitRange ==
    /\ pc # "raised"
    /\ \A i \in Scored :
          /\ 0 <= results[i].priority_score
          /\ results[i].priority_score <= 10000
          /\ results[i].priority_score % 10 = 0

\* What does hold: every score priority_score returns lies in [0.0, 1.0]
\* and is a multiple of 0.001.
ReturnedScoresInUnitRange ==
    \A i \in Scored :
        /\ 0 <= results[i].priority_score
        /\ results[i].priority_score <= 10000
        /\ results[i].priority_score % 10 = 0

\* C2: the score is the sum 0.35 + keyword + tag + age + due-date bonus,
\* less 0.60 for a completed item, clamped into [0, 1]; the penalty is
\* taken off the unclamped sum.  The four worked examples give 0.35, 1.0,
\* 0.40 and 0.65.
C2_ScoreIsClampedSum ==
    \A i \in Scored :
        LET r == request[i]
            c == calls[i]
            sum == 3500 + c.kw + c.tag + c.age + c.due
            got == results[i].priority_score
            undated == ~r.created_at.some /\ ~r.due_date.some
        IN  /\ got = Max(0, Min(10000, sum - (IF r.completed THEN 6000 ELSE 0)))
            /\ (r.title = Title_note /\ r.tags = <<>> /\ undated /\ ~r.completed)
                  => got = 3500
            /\ (r.title = Title_urgent /\ r.tags = <<T_BUG>> /\ undated)
                  => got = (IF r.completed THEN 4000 ELSE 10000)
            /\ (r.title = Title_trip /\ r.tags = <<>> /\ ~r.created_at.some
                  /\ r.due_date.some
                  /\ SecondsFromTo(ReadingAt(c.nowDue), InstantOf(r.due_date)) = 0 - 3600
                  /\ ~r.completed)
                  => got = 6500

\* C2 witness: a completed item whose bonuses add up to more than 1.0 was
\* scored, and its score is that sum less 0.60.
C2_Witness ==
    \E i \in Scored :
        LET c == calls[i]
            sum == 3500 + c.kw + c.tag + c.age + c.due
        IN  /\ request[i].completed
            /\ sum > 10000
            /\ results[i].priority_score = sum - 6000

\* C3: the keyword bonus is min(0.45, the weights of the distinct keywords
\* the title contains, plus 0.05 for a title of 8 words or more); it never
\* falls when a word is added and never exceeds 0.45.
C3_Weights ==
    [urgent |-> 3500, asap |-> 3000, important |-> 2500, today |-> 2000,
     tomorrow |-> 1500, email |-> 500, call |-> 500]

RECURSIVE C3_Sum(_)
C3_Sum(ks) ==
    IF ks = {} THEN 0
    ELSE LET k == CHOOSE x \in ks : TRUE IN C3_Weights[k] + C3_Sum(ks \ {k})

C3_KeywordBonus ==
    kpc = "scored" =>
        LET present == UNION {added[i] : i \in 1..Len(added)}
            long == IF nwords >= 8 THEN 500 ELSE 0
        IN  /\ kwBonus = Min(4500, C3_Sum(present) + long)
            /\ prevBonus <= kwBonus
            /\ kwBonus <= 4500

\* C3 witness: a title two different keywords were added to was scored; the
\* second keyword raised the bonus, to the ceiling.
C3_Witness ==
    /\ kpc = "scored"
    /\ Len(added) = 2
    /\ added[1] # {} /\ added[2] # {} /\ added[1] # added[2]
    /\ prevBonus < kwBonus
    /\ kwBonus = 4500

\* C4: the tag bonus of no tags is 0.0; otherwise it is min(0.25, the sum
\* over the occurrences of the tags of their weights), a tag weighing by
\* its lower-cased, trimmed text (work, home, bug, feature) and 0.03
\* otherwise.  k unknown tags give min(0.03 k, 0.25); the order is
\* irrelevant.
C4_Weight(t) ==
    CASE t \in {T_work, T_Work_} -> 1000
      [] t = T_home -> 500
      [] t = T_BUG -> 2000
      [] t = T_Feature -> 1500
      [] OTHER -> 300

C4_Count(t) == Cardinality({i \in 1..Len(tags) : tags[i] = t})

RECURSIVE C4_Sum(_)
C4_Sum(ts) ==
    IF ts = {} THEN 0
    ELSE LET t == CHOOSE x \in ts : TRUE
         IN  C4_Weight(t) * C4_Count(t) + C4_Sum(ts \ {t})

C4_TagBonus ==
    tpc = "scored" =>
        /\ tags = <<>> => tagBonus = 0
        /\ tagBonus = Min(2500, C4_Sum(TagTexts))
        /\ (\A i \in 1..Len(tags) : tags[i] \in {T_x, T_works, T_empty})
              => tagBonus = Min(300 * Len(tags), 2500)

\* C4 witness: nine unknown tags were scored and hit the ceiling.
C4_Witness ==
    /\ tpc = "scored"
    /\ Len(tags) = 9
    /\ \A i \in 1..Len(tags) : tags[i] = T_x
    /\ tagBonus = 2500

\* C5: the age bonus and the due-date bonus are the step tables, each
\* boundary belonging to the lower bucket; an absent timestamp gives 0.0.
C5_StepTables ==
    \A i \in Scored :
        LET r == request[i]
            c == calls[i]
            a == SecondsFromTo(InstantOf(r.created_at), ReadingAt(c.nowAge))
            d == SecondsFromTo(ReadingAt(c.nowDue), InstantOf(r.due_date))
        IN  /\ ~r.created_at.some => c.age = 0
            /\ r.created_at.some =>
                  c.age = (IF a <= 86400 THEN 500
                           ELSE IF a <= 259200 THEN 1000
                           ELSE IF a <= 604800 THEN 1500
                           ELSE 2000)
            /\ ~r.due_date.some => c.due = 0
            /\ r.due_date.some =>
                  c.due = (IF d <= 0 THEN 3000
                           ELSE IF d <= 86400 THEN 2500
                           ELSE IF d <= 259200 THEN 2000
                           ELSE IF d <= 604800 THEN 1000
                           ELSE 500)

\* C5 witness: an item exactly 24 hours old was scored and got 0.05.
C5_Witness ==
    \E i \in Scored :
        /\ request[i].created_at.some
        /\ SecondsFromTo(InstantOf(request[i].created_at),
                         ReadingAt(calls[i].nowAge)) = 86400
        /\ calls[i].age = 500

\* C6: the handler returns one result per todo, in order; result i echoes
\* the fields of todo i unchanged and carries the score of todo i alone.
C6_EchoInOrder ==
    pc = "done" =>
        /\ Len(results) = Len(request)
        /\ \A i \in 1..Len(request) :
              /\ results[i].title = request[i].title
              /\ results[i].completed = request[i].completed
              /\ results[i].created_at = request[i].created_at
              /\ results[i].due_date = request[i].due_date
              /\ results[i].tags = request[i].tags
              /\ results[i].priority_score
                    = priority_score_at(FeaturesOf(request[i]),
                                        calls[i].nowAge, calls[i].nowDue, 0)

\* What does hold of a returned batch: one result per todo, in order, every
\* field but the tags echoed, and each score the score of its own todo.
BatchOrderAndScores ==
    pc = "done" =>
        /\ Len(results) = Len(request)
        /\ \A i \in 1..Len(request) :
              /\ results[i].title = request[i].title
              /\ results[i].completed = request[i].completed
              /\ results[i].created_at = request[i].created_at
              /\ results[i].due_date = request[i].due_date
              /\ results[i].priority_score
                    = priority_score_at(FeaturesOf(request[i]),
                                        calls[i].nowAge, calls[i].nowDue, 0)

\* C7: the clock is read once per item, so the score is what both bonuses
\* give at the instant the call of priority_score started.
C7_ScoreAsAtCallStart ==
    \A i \in Scored :
        results[i].priority_score
            = priority_score_at(FeaturesOf(request[i]), calls[i].t0, calls[i].t0, 0)

\* C8: every token the tag validator returns is trimmed and non-empty; None
\* gives no token and a bare string exactly one.
C8_TrimmedNonEmpty ==
    npc = "done" =>
        /\ \A i \in 1..Len(normalized) :
              /\ normalized[i] # <<>>
              /\ normalized[i][1] \notin Whitespace
              /\ normalized[i][Len(normalized[i])] \notin Whitespace
        /\ value.kind = "none" => normalized = <<>>
        /\ value.kind = "str" => Len(normalized) = 1

\* What the normalizer does with the timestamps of the scored items, and
\* that another zone for the same instant changes neither bonus nor score.
ZoneFacts ==
    \A i \in Scored :
        LET r == request[i]
            c == calls[i]
        IN  /\ \A d \in {r.created_at, r.due_date} :
                  LET n == normalize_dt(d)
                  IN  /\ ~n.raised
                      /\ ~d.some => n.value = None
                      /\ (d.some /\ ~d.aware) => n.value = Aware(d.ord, d.sec, 0)
                      /\ (d.some /\ d.aware) =>
                            /\ n.value.off = 0
                            /\ InstantOf(n.value) = InstantOf(d)
            /\ \A z \in {0, East, West} :
                  LET ca == IF r.created_at.some /\ Writable(r.created_at, z)
                            THEN InZone(r.created_at, z) ELSE r.created_at
                      dd == IF r.due_date.some /\ Writable(r.due_date, z)
                            THEN InZone(r.due_date, z) ELSE r.due_date
                      f == TodoFeatures(r.title, r.completed, ca, dd, r.tags)
                  IN  /\ age_bonus(normalize_dt(ca).value, now_utc(c.nowAge)) = c.age
                      /\ due_date_bonus(normalize_dt(dd).value, now_utc(c.nowDue)) = c.due
                      /\ priority_score_at(f, c.nowAge, c.nowDue, 0)
                            = results[i].priority_score

\* C9: the timestamp normalizer keeps None, reads a timestamp without zone
\* as UTC with the same clock fields and converts every zoned timestamp to
\* UTC without moving the instant; so the bonuses and the score of an item
\* do not change when its timestamps are written in another zone.
C9_ZoneIndependent == pc # "raised" /\ ZoneFacts

\* C10: scored at the same instants, an item scores strictly lower completed
\* than uncompleted; an uncompleted item scores at least 0.35 and a
\* completed one at most 0.95.
C10_CompletedScoresLower ==
    \A i \in Scored :
        LET r == request[i]
            c == calls[i]
            mine == results[i].priority_score
            flipped == TodoFeatures(r.title, ~r.completed, r.created_at,
                                    r.due_date, r.tags)
            other == priority_score_at(flipped, c.nowAge, c.nowDue, 0)
        IN  /\ r.completed => (mine < other /\ mine <= 9500)
            /\ ~r.completed => (other < mine /\ mine >= 3500)

\* C10 witness: a completed item with every bonus at its ceiling was scored
\* 0.95.
C10_Witness ==
    \E i \in Scored :
        /\ request[i].completed
        /\ calls[i].kw = 4500 /\ calls[i].tag = 2500
        /\ calls[i].age = 2000 /\ calls[i].due = 3000
        /\ results[i].priority_score = 9500

====
